---- MODULE Spec2Model ----
(***************************************************************************)
(* Model of src/rest.rs: the loopback HTTP/REST server of the installer.   *)
(*                                                                         *)
(* Two threads are modelled: the creator (the caller of WebServer::new or  *)
(* WebServer::with_addr) and the server thread spawned by with_addr, which *)
(* binds the socket, sends the bound address back on a channel and then    *)
(* runs hyper's single-threaded accept loop, calling WebService::call for  *)
(* one request at a time.                                                  *)
(*                                                                         *)
(* Strings are sequences of one-character strings, so that ends_with,      *)
(* format! and the JSON encoding are computed character by character.      *)
(***************************************************************************)
EXTENDS Integers, Sequences, FiniteSets, TLC

VARIABLES
    panicAbort,   \* build profile: TRUE when a panic aborts the process
    framework,    \* the InstallerFramework moved into with_addr
    assets,       \* the embedded asset store behind assets::file_from_string
    creator,      \* position of the thread that calls new / with_addr
    requested,    \* the addr argument of with_addr
    server,       \* position of the thread spawned by with_addr
    listener,     \* local address of the bound hyper server, or None
    chan,         \* messages in flight on the mpsc channel
    senderAlive,  \* the Sender half of the channel has not been dropped
    handle,       \* the WebServer returned by with_addr, or None
    got,          \* result of the latest get_addr call, or None
    bind_result,  \* what Http::bind returned on the server thread, or None
    proc,         \* "running", "exited" or "aborted"
    exit_code,    \* the code passed to std::process::exit, or None
    backlog,      \* number of requests sent to the listening socket that
                  \* the accept loop has not read yet
    cur,          \* the request whose handler is blocked in the folder dialog
    last,         \* the latest finished handler: request, calls made, outcome
    log           \* lifecycle events in the order they happened

vars == <<panicAbort, framework, assets, creator, requested, server, listener,
          chan, senderAlive, handle, got, bind_result, proc, exit_code,
          backlog, cur, last, log>>

\* Option values: None, or Some(v) holding v.
None == <<>>
Some(v) == <<v>>
unwrap(o) == o[1]

\* Result values; unwrap panics on an Err.
Ok(v) == [ok |-> TRUE, val |-> v, err |-> ""]
Err(v, e) == [ok |-> FALSE, val |-> v, err |-> e]
unwrap_panics(r) == ~r.ok

\* ------------------------------------------------------------------------
\* Bounds
\* ------------------------------------------------------------------------

\* Number of requests that may wait unread at the listening socket.
MaxBacklog == 2

\* ------------------------------------------------------------------------
\* Strings
\* ------------------------------------------------------------------------

ApiConfig == <<"/","a","p","i","/","c","o","n","f","i","g">>
ApiFileSelect == <<"/","a","p","i","/","f","i","l","e","-","s","e","l","e","c","t">>
ApiDefaultPath == <<"/","a","p","i","/","d","e","f","a","u","l","t","-","p","a","t","h">>
ApiExit == <<"/","a","p","i","/","e","x","i","t">>
IndexHtml == <<"i","n","d","e","x",".","h","t","m","l">>
Slash == <<"/">>

\* Other request paths used as inputs.
ApiExitSlash == <<"/","a","p","i","/","e","x","i","t","/">>
Root == <<"/">>
IndexPage == <<"/","i","n","d","e","x",".","h","t","m","l">>
DocsDir == <<"/","d","o","c","s","/">>

\* str::ends_with
ends_with(s, suffix) ==
    /\ Len(s) >= Len(suffix)
    /\ SubSeq(s, Len(s) - Len(suffix) + 1, Len(s)) = suffix

\* ------------------------------------------------------------------------
\* Socket addresses and the operating system's bind
\* ------------------------------------------------------------------------

Localhost == <<127, 0, 0, 1>>
AnyHost == <<0, 0, 0, 0>>
FixedPorts == {8080}
EphemeralPorts == {49152, 49153}

SocketAddr_new(ip, port) == [ip |-> ip, port |-> port]

\* Addresses a caller of with_addr may ask for.
RequestedAddrs ==
    { SocketAddr_new(ip, port) :
          ip \in {Localhost, AnyHost}, port \in {0} \cup FixedPorts }

BindErrors == {"AddrInUse", "PermissionDenied", "AddrNotAvailable"}

\* Http::new().bind(&addr, ..): the results the operating system can give.
\* Port 0 asks for any free port; a free nonzero port is bound as asked.
Http_bind(addr) ==
    { Ok(Some(SocketAddr_new(addr.ip, p))) :
          p \in IF addr.port = 0 THEN EphemeralPorts ELSE {addr.port} }
    \cup
    { Err(None, e) : e \in BindErrors }

\* ------------------------------------------------------------------------
\* Collaborators: installer framework, folder picker, asset store
\* ------------------------------------------------------------------------


Json1 == <<"{","}">>
Json2 == <<"{","\"","a","\"",":","\"",";","\"","}">>
DirUnix == <<"/","o","p","t">>
DirWin == <<"C",":","\\","a","\"","b">>

\* Installer frameworks the server may be created with: what
\* get_config().to_json_str() returns and what get_default_path() returns.
Frameworks ==
    { [to_json_str |-> Ok(Json1), default_path |-> None],
      [to_json_str |-> Ok(Json2), default_path |-> Some(DirWin)],
      [to_json_str |-> Err(<<>>, "SerializeError"), default_path |-> Some(DirUnix)] }

\* Results of nfd::open_pick_folder(None).
PickerResults ==
    { Ok([kind |-> "Okay", path |-> DirUnix]),
      Ok([kind |-> "Okay", path |-> DirWin]),
      Ok([kind |-> "OkayMultiple", path |-> <<>>]),
      Ok([kind |-> "Cancel", path |-> <<>>]),
      Err([kind |-> "", path |-> <<>>], "NfdError") }

TextHtml == "text/html"
TextPlain == "text/plain"
Page == <<"<","p",">">>
Listing == <<"d","i","r">>

\* The embedded asset store: an index page, an entry whose key ends with "/"
\* and an entry stored under an API path.  "/docs/index.html" and
\* "/api/exit/index.html" are not in it.
AssetStores ==
    { { [path |-> IndexPage, content_type |-> TextHtml, file |-> Page],
        [path |-> DocsDir, content_type |-> TextPlain, file |-> Listing],
        [path |-> ApiConfig, content_type |-> TextPlain, file |-> Listing] } }

\* assets::file_from_string: Some((content_type, file)) or None.
file_from_string(store, path) ==
    IF \E a \in store : a.path = path
    THEN LET a == CHOOSE a \in store : a.path = path
         IN  Some([content_type |-> a.content_type, file |-> a.file])
    ELSE None

\* ------------------------------------------------------------------------
\* Encoding
\* ------------------------------------------------------------------------

\* enscapsulate_json with the closing ";" left out of the format string.
enscapsulate_json_unterminated(field_name, json) ==
    <<"v","a","r"," ">> \o field_name \o <<" ","="," ">> \o json

\* format!("var {} = {};", field_name, json)
enscapsulate_json(field_name, json) ==
    <<"v","a","r"," ">> \o field_name \o <<" ","="," ">> \o json \o <<";">>

\* serde_json's string escaping of the characters that occur in the inputs.
RECURSIVE json_escape(_)
json_escape(s) ==
    IF s = <<>> THEN <<>>
    ELSE (IF Head(s) \in {"\"", "\\"} THEN <<"\\", Head(s)>> ELSE <<Head(s)>>)
         \o json_escape(Tail(s))

\* serde_json::to_string(&FileSelection { path })
FileSelection_to_string(path) ==
    <<"{","\"","p","a","t","h","\"",":">>
    \o (IF path = None THEN <<"n","u","l","l">>
        ELSE <<"\"">> \o json_escape(unwrap(path)) \o <<"\"">>)
    \o <<"}">>

\* ------------------------------------------------------------------------
\* Responses
\* ------------------------------------------------------------------------

StatusOk == 200
NotFound == 404
ContentType_json == "application/json"

Response_new == [status |-> StatusOk, headers |-> <<>>, body |-> <<>>]
with_header(resp, name, value) ==
    [resp EXCEPT !.headers = Append(@, <<name, value>>)]
with_body(resp, body) == [resp EXCEPT !.body = body]
with_status(resp, status) == [resp EXCEPT !.status = status]

\* The value of a header of a response, None when it was never set.
header(resp, name) ==
    IF \E i \in 1..Len(resp.headers) : resp.headers[i][1] = name
    THEN Some(resp.headers[CHOOSE i \in 1..Len(resp.headers) :
                               resp.headers[i][1] = name][2])
    ELSE None

\* ------------------------------------------------------------------------
\* WebService::call
\* ------------------------------------------------------------------------

Get == "GET"
Methods == {Get, "POST", "PUT", "DELETE"}
Paths == {ApiConfig, ApiFileSelect, ApiDefaultPath, ApiExit, ApiExitSlash,
          Root, IndexPage, DocsDir}
Requests == [method : Methods, path : Paths]

\* What a handler run comes to: the calls it made to its collaborators and
\* either the response it returned, a process exit, or a panic.
Called(fn, path) == [fn |-> fn, path |-> path]
Responded(calls, resp) ==
    [calls |-> calls, outcome |-> "response", resp |-> Some(resp), code |-> None]
Exited(calls, code) ==
    [calls |-> calls, outcome |-> "exit", resp |-> None, code |-> Some(code)]
Panicked(calls) ==
    [calls |-> calls, outcome |-> "panic", resp |-> None, code |-> None]

\* file_response with the ContentLength header left out.
file_response_unsized(content_type, file) ==
    with_body(with_header(Response_new, "Content-Type", content_type), file)

\* Response::new().with_header(ContentLength(file.len()))
\*                 .with_header(content_type).with_body(file)
file_response(content_type, file) ==
    with_body(with_header(with_header(Response_new,
        "Content-Length", Len(file)), "Content-Type", content_type), file)

\* call_config with the serialization error replaced by an empty document
\* in place of the unwrap.
call_config_or_default(fw) ==
    LET calls == <<Called("get_config", None), Called("to_json_str", None)>>
        json == IF fw.to_json_str.ok THEN fw.to_json_str.val ELSE <<>>
    IN  Responded(calls,
            file_response(ContentType_json,
                enscapsulate_json(<<"c","o","n","f","i","g">>, json)))

\* (&Get, "/api/config")
call_config(fw) ==
    LET calls == <<Called("get_config", None), Called("to_json_str", None)>>
    IN  IF unwrap_panics(fw.to_json_str) THEN Panicked(calls)
        ELSE Responded(calls,
                 file_response(ContentType_json,
                     enscapsulate_json(<<"c","o","n","f","i","g">>,
                                       fw.to_json_str.val)))

\* (&Get, "/api/file-select"); file_dialog is what nfd::open_pick_folder
\* returned.
call_file_select(file_dialog) ==
    LET calls == <<Called("open_pick_folder", None)>>
    IN  IF unwrap_panics(file_dialog) THEN Panicked(calls)
        ELSE LET file == IF file_dialog.val.kind = "Okay"
                         THEN Some(file_dialog.val.path) ELSE None
             IN  Responded(calls,
                     file_response(ContentType_json, FileSelection_to_string(file)))

\* call_default_path with the framework's default path never passed on.
call_default_path_unset(fw) ==
    Responded(<<Called("get_default_path", None)>>,
              file_response(ContentType_json, FileSelection_to_string(None)))

\* (&Get, "/api/default-path")
call_default_path(fw) ==
    Responded(<<Called("get_default_path", None)>>,
              file_response(ContentType_json,
                            FileSelection_to_string(fw.default_path)))

\* call_exit returning an empty response in place of ending the process.
call_exit_returns == Responded(<<Called("exit", None)>>, Response_new)

\* (&Get, "/api/exit")
call_exit == Exited(<<Called("exit", None)>>, 0)

\* static_path without the index page rule.
static_path_verbatim(path) == path

\* The path handed to the asset store by the static file handler.
static_path(path) ==
    IF ends_with(path, Slash) THEN path \o IndexHtml ELSE path

\* call_static with the status left at its default when nothing is found.
call_static_miss_ok(store, req_path) ==
    LET path == static_path(req_path)
        calls == <<Called("file_from_string", Some(path))>>
        found == file_from_string(store, path)
    IN  IF found # None
        THEN Responded(calls,
                 file_response(unwrap(found).content_type, unwrap(found).file))
        ELSE Responded(calls, Response_new)

\* (&Get, _): the static file handler
call_static(store, req_path) ==
    LET path == static_path(req_path)
        calls == <<Called("file_from_string", Some(path))>>
        found == file_from_string(store, path)
    IN  IF found # None
        THEN Responded(calls,
                 file_response(unwrap(found).content_type, unwrap(found).file))
        ELSE Responded(calls, with_status(Response_new, NotFound))

\* _ : the fallthrough for POST/PUT/CONNECT/...
call_fallthrough == Responded(<<>>, with_status(Response_new, NotFound))

\* route with the method left out of the patterns.
route_any_method(method, path) ==
    IF path = ApiConfig THEN "config"
    ELSE IF path = ApiFileSelect THEN "file-select"
    ELSE IF path = ApiDefaultPath THEN "default-path"
    ELSE IF path = ApiExit THEN "exit"
    ELSE "static"

\* route with the static file arm placed before the API arms.
route_static_first(method, path) ==
    IF method = Get /\ (\E a \in UNION AssetStores : a.path = path) THEN "static"
    ELSE IF method = Get /\ path = ApiConfig THEN "config"
    ELSE IF method = Get /\ path = ApiFileSelect THEN "file-select"
    ELSE IF method = Get /\ path = ApiDefaultPath THEN "default-path"
    ELSE IF method = Get /\ path = ApiExit THEN "exit"
    ELSE IF method = Get THEN "static"
    ELSE "fallthrough"

\* route with the exit arm matching every path that starts with "/api/exit".
route_exit_prefix(method, path) ==
    IF method = Get /\ path = ApiConfig THEN "config"
    ELSE IF method = Get /\ path = ApiFileSelect THEN "file-select"
    ELSE IF method = Get /\ path = ApiDefaultPath THEN "default-path"
    ELSE IF method = Get /\ Len(path) >= Len(ApiExit)
                        /\ SubSeq(path, 1, Len(ApiExit)) = ApiExit THEN "exit"
    ELSE IF method = Get THEN "static"
    ELSE "fallthrough"

\* The arm of the match that a (method, path) pair selects, in source order.
route(method, path) ==
    IF method = Get /\ path = ApiConfig THEN "config"
    ELSE IF method = Get /\ path = ApiFileSelect THEN "file-select"
    ELSE IF method = Get /\ path = ApiDefaultPath THEN "default-path"
    ELSE IF method = Get /\ path = ApiExit THEN "exit"
    ELSE IF method = Get THEN "static"
    ELSE "fallthrough"

\* WebService::call.  file_dialog is the result of nfd::open_pick_folder,
\* read only by the /api/file-select arm.
call(fw, store, req, file_dialog) ==
    CASE route(req.method, req.path) = "config" -> call_config(fw)
      [] route(req.method, req.path) = "file-select" -> call_file_select(file_dialog)
      [] route(req.method, req.path) = "default-path" -> call_default_path(fw)
      [] route(req.method, req.path) = "exit" -> call_exit
      [] route(req.method, req.path) = "static" -> call_static(store, req.path)
      [] OTHER -> call_fallthrough

\* Stands for the dialog result in handler runs that open no dialog.
NoDialog == Err([kind |-> "", path |-> <<>>], "")

\* ------------------------------------------------------------------------
\* State
\* ------------------------------------------------------------------------

Event(ev, thread) == [ev |-> ev, thread |-> thread]

Init ==
    /\ panicAbort \in BOOLEAN
    /\ framework \in Frameworks
    /\ assets \in AssetStores
    /\ creator = "start"
    /\ requested = None
    /\ server = "unspawned"
    /\ listener = None
    /\ chan = <<>>
    /\ senderAlive = FALSE
    /\ handle = None
    /\ got = None
    /\ bind_result = None
    /\ proc = "running"
    /\ exit_code = None
    /\ backlog = 0
    /\ cur = None
    /\ last = None
    /\ log = <<>>

\* server_panic with the Sender outliving the server thread.
server_panic_sender_kept ==
    /\ server' = "panicked"
    /\ IF panicAbort
       THEN /\ proc' = "aborted"
            /\ UNCHANGED <<senderAlive, listener>>
       ELSE /\ proc' = "running"
            /\ senderAlive' = senderAlive
            /\ listener' = None

\* A panic on the server thread.  When panics unwind, the thread ends: the
\* closure's captures (the Sender) and the hyper server with its listening
\* socket are dropped, and the rest of the process goes on.  When the build
\* aborts on panic, the process ends.
server_panic ==
    /\ server' = "panicked"
    /\ IF panicAbort
       THEN /\ proc' = "aborted"
            /\ UNCHANGED <<senderAlive, listener>>
       ELSE /\ proc' = "running"
            /\ senderAlive' = FALSE
            /\ listener' = None

\* ------------------------------------------------------------------------
\* WebServer::with_addr, WebServer::new, WebServer::get_addr
\* ------------------------------------------------------------------------

\* with_addr up to its blocking recv: the channel is created and the server
\* thread is spawned with the Sender, the framework and addr moved into it.
\* entry names the function the caller entered through.
with_addr_spawn(addr, entry) ==
    /\ proc = "running"
    /\ creator = "start"
    /\ creator' = "recv"
    /\ requested' = Some(addr)
    /\ chan' = <<>>
    /\ senderAlive' = TRUE
    /\ server' = "bind"
    /\ log' = Append(log, Event(entry, "creator"))
    /\ UNCHANGED <<panicAbort, framework, assets, listener, handle, got,
                   bind_result, proc, exit_code, backlog, cur, last>>

with_addr(addr) == with_addr_spawn(addr, "with_addr")

\* WebServer::new: with_addr on 127.0.0.1, port 0.
new == with_addr_spawn(SocketAddr_new(Localhost, 0), "new")

\* Server thread: Http::new().bind(..).unwrap()
server_bind ==
    /\ proc = "running"
    /\ server = "bind"
    /\ \E r \in Http_bind(unwrap(requested)) :
          /\ bind_result' = Some(r)
          /\ IF unwrap_panics(r)
             THEN /\ server_panic
                  /\ UNCHANGED log
             ELSE /\ listener' = r.val
                  /\ server' = "send"
                  /\ log' = Append(log, Event("bind", "server"))
                  /\ UNCHANGED <<senderAlive, proc>>
    /\ UNCHANGED <<panicAbort, framework, assets, creator, requested, chan,
                   handle, got, exit_code, backlog, cur, last>>

\* server_send with the requested addr sent in place of server.local_addr().
server_send_requested ==
    /\ proc = "running"
    /\ server = "send"
    /\ chan' = Append(chan, unwrap(requested))
    /\ server' = "run"
    /\ log' = log \o <<Event("send", "server"), Event("run", "server")>>
    /\ UNCHANGED <<panicAbort, framework, assets, creator, requested, listener,
                   senderAlive, handle, got, bind_result, proc, exit_code,
                   backlog, cur, last>>

\* Server thread: sender.send(server.local_addr().unwrap()).unwrap(), after
\* which the thread enters server.run().
server_send ==
    /\ proc = "running"
    /\ server = "send"
    /\ chan' = Append(chan, unwrap(listener))
    /\ server' = "run"
    /\ log' = log \o <<Event("send", "server"), Event("run", "server")>>
    /\ UNCHANGED <<panicAbort, framework, assets, creator, requested, listener,
                   senderAlive, handle, got, bind_result, proc, exit_code,
                   backlog, cur, last>>

\* with_addr_recv with a receive that does not wait for the server thread:
\* an empty channel makes it return a handle holding the requested addr.
with_addr_recv_nowait ==
    /\ proc = "running"
    /\ creator = "recv"
    /\ chan' = IF chan # <<>> THEN Tail(chan) ELSE chan
    /\ handle' = Some([addr |-> IF chan # <<>> THEN Head(chan)
                                ELSE unwrap(requested)])
    /\ creator' = "returned"
    /\ log' = log \o <<Event("recv", "creator"), Event("return", "creator")>>
    /\ UNCHANGED <<panicAbort, framework, assets, requested, server, listener,
                   senderAlive, got, bind_result, proc, exit_code, backlog, cur,
                   last>>

\* Creator: receiver.recv().unwrap() and the return of Ok(WebServer).
\* recv blocks while the channel is empty and the Sender is alive; it gives
\* Err once the Sender is dropped with nothing sent, and unwrap panics.
with_addr_recv ==
    /\ proc = "running"
    /\ creator = "recv"
    /\ \/ /\ chan # <<>>
          /\ chan' = Tail(chan)
          /\ handle' = Some([addr |-> Head(chan)])
          /\ creator' = "returned"
          /\ log' = log \o <<Event("recv", "creator"), Event("return", "creator")>>
          /\ UNCHANGED proc
       \/ /\ chan = <<>>
          /\ ~senderAlive
          /\ creator' = "panicked"
          /\ proc' = IF panicAbort THEN "aborted" ELSE proc
          /\ UNCHANGED <<chan, handle, log>>
    /\ UNCHANGED <<panicAbort, framework, assets, requested, server, listener,
                   senderAlive, got, bind_result, exit_code, backlog, cur, last>>

\* call_get_addr reading the server thread's listener in place of the
\* address stored in the handle.
call_get_addr_live ==
    /\ proc = "running"
    /\ creator = "returned"
    /\ got' = listener
    /\ UNCHANGED <<panicAbort, framework, assets, creator, requested, server,
                   listener, chan, senderAlive, handle, bind_result, proc,
                   exit_code, backlog, cur, last, log>>

\* self.addr.clone()
get_addr(self) == self.addr

call_get_addr ==
    /\ proc = "running"
    /\ creator = "returned"
    /\ got' = Some(get_addr(unwrap(handle)))
    /\ UNCHANGED <<panicAbort, framework, assets, creator, requested, server,
                   listener, chan, senderAlive, handle, bind_result, proc,
                   exit_code, backlog, cur, last, log>>

\* ------------------------------------------------------------------------
\* The accept loop of server.run()
\* ------------------------------------------------------------------------

\* A client sends a request to the listening socket.  The request waits
\* there, unread, until the loop gets to it.
receive ==
    /\ proc = "running"
    /\ listener # None
    /\ backlog < MaxBacklog
    /\ backlog' = backlog + 1
    /\ UNCHANGED <<panicAbort, framework, assets, creator, requested, server,
                   listener, chan, senderAlive, handle, got, bind_result, proc,
                   exit_code, cur, last, log>>

\* What the end of a handler run does: a returned response goes out and the
\* loop goes on; exit ends the process; a panic unwinds out of server.run().
finish(req, file_dialog, res) ==
    /\ last' = Some([req |-> req, file_dialog |-> file_dialog] @@ res)
    /\ cur' = None
    /\ CASE res.outcome = "response" ->
              /\ server' = "run"
              /\ UNCHANGED <<proc, exit_code, senderAlive, listener>>
         [] res.outcome = "exit" ->
              /\ proc' = "exited"
              /\ exit_code' = res.code
              /\ UNCHANGED <<server, senderAlive, listener>>
         [] res.outcome = "panic" ->
              /\ server_panic
              /\ UNCHANGED exit_code

\* The loop reads the next waiting request, req, and runs WebService::call
\* on it.  The /api/file-select arm blocks in the folder dialog first.
serve(req) ==
    /\ proc = "running"
    /\ server = "run"
    /\ backlog > 0
    /\ backlog' = backlog - 1
    /\ IF route(req.method, req.path) = "file-select"
       THEN /\ server' = "dialog"
            /\ cur' = Some(req)
            /\ UNCHANGED <<last, proc, exit_code, senderAlive, listener>>
       ELSE finish(req, NoDialog, call(framework, assets, req, NoDialog))
    /\ UNCHANGED <<panicAbort, framework, assets, creator, requested, chan,
                   handle, got, bind_result, log>>

\* nfd::open_pick_folder returns and the handler runs to its end.
dialog_return(file_dialog) ==
    /\ proc = "running"
    /\ server = "dialog"
    /\ finish(unwrap(cur), file_dialog,
              call(framework, assets, unwrap(cur), file_dialog))
    /\ UNCHANGED <<panicAbort, framework, assets, creator, requested, chan,
                   handle, got, bind_result, backlog, log>>

Next ==
    \/ new
    \/ \E addr \in RequestedAddrs : with_addr(addr)
    \/ server_bind
    \/ server_send
    \/ with_addr_recv
    \/ call_get_addr
    \/ receive
    \/ \E req \in Requests : serve(req)
    \/ \E r \in PickerResults : dialog_return(r)

Spec == Init /\ [][Next]_vars

\* ------------------------------------------------------------------------
\* Properties
\* ------------------------------------------------------------------------

HasEvent(ev) == \E i \in 1..Len(log) : log[i].ev = ev
EventPos(ev) == CHOOSE i \in 1..Len(log) : log[i].ev = ev
Handled(method, path) ==
    /\ last # None
    /\ unwrap(last).req = [method |-> method, path |-> path]
ApiPaths == {ApiConfig, ApiFileSelect, ApiDefaultPath, ApiExit}

\* C1: whenever with_addr has returned a handle, the server thread bound the
\* socket before it sent the address, the send came before the creator's
\* receive, and the receive before the return; binding, sending and the
\* accept loop run on the spawned thread only.
C1_HandoffBeforeReturn ==
    /\ (creator = "returned" \/ handle # None) =>
          /\ HasEvent("bind") /\ HasEvent("send")
          /\ HasEvent("recv") /\ HasEvent("return")
          /\ EventPos("bind") < EventPos("send")
          /\ EventPos("send") < EventPos("recv")
          /\ EventPos("recv") < EventPos("return")
          /\ handle # None
          /\ bind_result # None /\ unwrap(bind_result).ok
    /\ \A i \in 1..Len(log) :
          log[i].ev \in {"bind", "send", "run"} => log[i].thread = "server"

\* C1 witness: the handle was returned while the server thread serves.
C1_Witness ==
    /\ creator = "returned"
    /\ handle # None
    /\ server = "run"
    /\ HasEvent("run")

\* C2: when binding the socket fails, with_addr hands an error value back to
\* its caller: the caller does not panic, the process goes on, and no handle
\* exists.
C2_BindFailureReturnsErr ==
    (bind_result # None /\ ~unwrap(bind_result).ok) =>
        /\ creator # "panicked"
        /\ proc = "running"
        /\ handle = None

\* C3: the address of a returned handle, and every get_addr result, is the
\* local address the socket was bound to; a requested port 0 is reported as
\* a nonzero port, a requested nonzero port is reported as itself; new asks
\* for 127.0.0.1 port 0.
C3_ReportsBoundAddress ==
    /\ handle # None =>
          /\ bind_result # None /\ unwrap(bind_result).ok
          /\ get_addr(unwrap(handle)) = unwrap(unwrap(bind_result).val)
          /\ unwrap(requested).port = 0 => get_addr(unwrap(handle)).port # 0
          /\ unwrap(requested).port # 0 =>
                get_addr(unwrap(handle)).port = unwrap(requested).port
          /\ log[1].ev = "new" =>
                unwrap(requested) = SocketAddr_new(Localhost, 0)
    /\ got # None => got = unwrap(bind_result).val

\* C3 witness: get_addr was called on a server created by new.
C3_Witness ==
    /\ got # None
    /\ log[1].ev = "new"
    /\ unwrap(requested).port = 0
    /\ unwrap(got).port \in EphemeralPorts

\* C4: a handled GET /api/exit ends the process with exit code 0 and has no
\* response; once the process has exited no request, pending or new, is
\* handled or answered.
C4_ExitWithoutResponse ==
    /\ [](Handled(Get, ApiExit) =>
            /\ unwrap(last).outcome = "exit"
            /\ unwrap(last).resp = None
            /\ proc = "exited"
            /\ exit_code = Some(0))
    /\ [][proc = "exited" => UNCHANGED <<last, backlog, cur, server>>]_vars

\* C4 witness: the process exited in GET /api/exit with a request pending.
C4_Witness ==
    /\ Handled(Get, ApiExit)
    /\ proc = "exited"
    /\ backlog > 0

\* The JSON text of a string value, written out independently of the model
\* of serde_json.
RECURSIVE JsonChars(_)
JsonChars(p) ==
    IF p = <<>> THEN <<>>
    ELSE (CASE Head(p) = "\"" -> <<"\\", "\"">>
            [] Head(p) = "\\" -> <<"\\", "\\">>
            [] OTHER -> <<Head(p)>>) \o JsonChars(Tail(p))
PathBody(p) == <<"{","\"","p","a","t","h","\"",":","\"">> \o JsonChars(p) \o <<"\"","}">>
NullBody == <<"{","\"","p","a","t","h","\"",":","n","u","l","l","}">>

\* C5: every outcome of the folder picker in GET /api/file-select gives a 200
\* JSON response: a chosen path gives {"path":"P"}, cancellation and an
\* error of the picker both give {"path":null}; the handler never panics.
C5_PickerAlwaysAnswered ==
    Handled(Get, ApiFileSelect) =>
        LET l == unwrap(last)
            d == l.file_dialog
        IN  /\ l.outcome = "response"
            /\ unwrap(l.resp).status = 200
            /\ header(unwrap(l.resp), "Content-Type") = Some("application/json")
            /\ unwrap(l.resp).body =
                  IF d.ok /\ d.val.kind = "Okay" THEN PathBody(d.val.path)
                  ELSE NullBody

\* C6: a request whose method is not GET gets a 404 response with an empty
\* body, whatever its path, and its handler calls neither the installer
\* framework, the folder picker, the asset store nor exit.
C6_NonGetIsNotFound ==
    (last # None /\ unwrap(last).req.method # "GET") =>
        /\ unwrap(last).outcome = "response"
        /\ unwrap(unwrap(last).resp).status = 404
        /\ unwrap(unwrap(last).resp).body = <<>>
        /\ Len(unwrap(last).calls) = 0
        /\ proc # "exited"

\* C6 witness: a DELETE of /api/exit was handled and the process runs.
C6_Witness ==
    /\ Handled("DELETE", ApiExit)
    /\ unwrap(last).outcome = "response"
    /\ proc = "running"
    /\ server = "run"

C8_NormalizedLookupOnce ==
    (last # None /\ unwrap(last).req.method = "GET"
                 /\ unwrap(last).req.path \notin ApiPaths) =>
        LET path == unwrap(last).req.path
            calls == unwrap(last).calls
        IN  /\ Len(calls) = 1
            /\ calls[1].fn = "file_from_string"
            /\ calls[1].path =
                  Some(IF path[Len(path)] = "/"
                       THEN path \o <<"i","n","d","e","x",".","h","t","m","l">>
                       ELSE path)

\* C8 witness: GET /docs/ was handled, where the store has an entry "/docs/"
\* and none for "/docs/index.html".
C8_Witness ==
    /\ Handled(Get, DocsDir)
    /\ file_from_string(assets, DocsDir) # None
    /\ unwrap(last).calls[1].path = Some(DocsDir \o IndexHtml)

\* C9: the response to a static GET follows from the asset store's answer
\* for the looked-up path alone: a hit gives 200 with the asset's content
\* type and exactly its bytes, a miss gives 404 with an empty body.
C9_StaticResponseFromStore ==
    (last # None /\ unwrap(last).req.method = "GET"
                 /\ unwrap(last).req.path \notin ApiPaths) =>
        LET l == unwrap(last)
            hits == {a \in assets : Some(a.path) = l.calls[1].path}
        IN  /\ l.outcome = "response"
            /\ \A a \in hits :
                  /\ unwrap(l.resp).status = 200
                  /\ header(unwrap(l.resp), "Content-Type") = Some(a.content_type)
                  /\ unwrap(l.resp).body = a.file
            /\ hits = {} =>
                  /\ unwrap(l.resp).status = 404
                  /\ unwrap(l.resp).body = <<>>

\* C9 witness: GET / was answered with the index page.
C9_Witness ==
    /\ Handled(Get, Root)
    /\ unwrap(unwrap(last).resp).status = 200
    /\ unwrap(unwrap(last).resp).body = Page

starts_with(s, prefix) ==
    /\ Len(s) >= Len(prefix)
    /\ SubSeq(s, 1, Len(prefix)) = prefix
ConfigPrefix == <<"v","a","r"," ","c","o","n","f","i","g"," ","="," ">>

\* C10: when the configuration serializes to J, GET /api/config answers 200
\* with Content-Type application/json and the body "var config = J;", and
\* taking the prefix and the final ";" off the body gives J again.
C10_ConfigBodyWrapsJson ==
    (Handled(Get, ApiConfig) /\ framework.to_json_str.ok) =>
        LET l == unwrap(last)
            J == framework.to_json_str.val
            body == unwrap(l.resp).body
        IN  /\ l.outcome = "response"
            /\ unwrap(l.resp).status = 200
            /\ header(unwrap(l.resp), "Content-Type") = Some("application/json")
            /\ body = ConfigPrefix \o J \o <<";">>
            /\ starts_with(body, ConfigPrefix)
            /\ body[Len(body)] = ";"
            /\ SubSeq(body, Len(ConfigPrefix) + 1, Len(body) - 1) = J

\* C10 witness: a configuration whose JSON text itself holds a ";" was served.
C10_Witness ==
    /\ Handled(Get, ApiConfig)
    /\ framework.to_json_str.val = Json2
    /\ unwrap(last).outcome = "response"

\* The value of the path field of a FileSelection document, read back from
\* its JSON text: None for null, Some(p) for a string.
RECURSIVE JsonUnescape(_)
JsonUnescape(s) ==
    IF s = <<>> THEN <<>>
    ELSE IF Head(s) = "\\" THEN <<s[2]>> \o JsonUnescape(Tail(Tail(s)))
    ELSE <<Head(s)>> \o JsonUnescape(Tail(s))
PathField(body) ==
    IF body = NullBody THEN None
    ELSE Some(JsonUnescape(SubSeq(body, 10, Len(body) - 2)))

\* C11: GET /api/default-path answers 200 with a JSON object whose path
\* field is the framework's default path, null when there is none, and its
\* handler calls get_default_path only, never the folder picker.
C11_DefaultPathMirrored ==
    Handled(Get, ApiDefaultPath) =>
        LET l == unwrap(last)
            body == unwrap(l.resp).body
        IN  /\ l.outcome = "response"
            /\ unwrap(l.resp).status = 200
            /\ header(unwrap(l.resp), "Content-Type") = Some("application/json")
            /\ body = IF framework.default_path = None THEN NullBody
                      ELSE PathBody(unwrap(framework.default_path))
            /\ PathField(body) = framework.default_path
            /\ \A i \in 1..Len(l.calls) : l.calls[i].fn = "get_default_path"
            /\ l.file_dialog = NoDialog

\* C11 witness: a default path holding a quote and a backslash was served.
C11_Witness ==
    /\ Handled(Get, ApiDefaultPath)
    /\ framework.default_path = Some(DirWin)
    /\ unwrap(last).outcome = "response"

\* C12: the handle, once returned, never changes; every get_addr call gives
\* the address stored in it at creation, whatever requests were handled in
\* between; get_addr can be called whatever the server thread is doing.
C12_AddrStable ==
    /\ [][handle # None => handle' = handle]_vars
    /\ [][got # None => got' = got]_vars
    /\ [](got # None =>
            /\ handle # None
            /\ got = Some(unwrap(handle).addr)
            /\ got = unwrap(bind_result).val)
    /\ []((creator = "returned" /\ proc = "running") => ENABLED call_get_addr)

\* C12 witness: get_addr answered after the server thread had handled a
\* request and ended in a panic.
C12_Witness ==
    /\ got # None
    /\ last # None
    /\ server = "panicked"
    /\ proc = "running"

\* C13: once with_addr has returned a handle, the server thread is serving
\* for as long as the process runs: in no state is the process running with
\* the server thread stopped.
C13_ServesWhileProcessRuns ==
    (handle # None /\ proc = "running") => server \in {"run", "dialog"}

\* The names of the collaborator calls of the latest handler run, in order.
CallNames == [i \in 1..Len(unwrap(last).calls) |-> unwrap(last).calls[i].fn]

\* C14: every handled (method, path) pair takes exactly one of the six arms,
\* the first that matches: a GET of one of the four API paths takes its API
\* arm and does not ask the asset store, even when the store has an entry
\* at that path; any other GET takes the static arm and calls neither the
\* framework nor the picker; any other method takes the fallthrough.
C14_FirstMatchWins ==
    last # None =>
        LET req == unwrap(last).req
        IN  /\ (req.method = "GET" /\ req.path = ApiConfig) =>
                  CallNames = <<"get_config", "to_json_str">>
            /\ (req.method = "GET" /\ req.path = ApiFileSelect) =>
                  CallNames = <<"open_pick_folder">>
            /\ (req.method = "GET" /\ req.path = ApiDefaultPath) =>
                  CallNames = <<"get_default_path">>
            /\ (req.method = "GET" /\ req.path = ApiExit) =>
                  CallNames = <<"exit">>
            /\ (req.method = "GET" /\ req.path \notin ApiPaths) =>
                  CallNames = <<"file_from_string">>
            /\ req.method # "GET" => CallNames = <<>>
            /\ Cardinality({ names \in { <<"get_config", "to_json_str">>,
                                         <<"open_pick_folder">>,
                                         <<"get_default_path">>,
                                         <<"exit">>,
                                         <<"file_from_string">>,
                                         <<>> } : names = CallNames }) = 1

\* C14 witness: GET /api/config was answered by the API arm although the
\* asset store has an entry at "/api/config".
C14_Witness ==
    /\ Handled(Get, ApiConfig)
    /\ \E a \in assets : a.path = ApiConfig
    /\ unwrap(last).outcome = "response"
    /\ CallNames = <<"get_config", "to_json_str">>

\* C15: handlers run one at a time on the server thread: while the handler
\* of GET /api/file-select is blocked in the folder dialog no handler run
\* finishes and no waiting request is dropped; when the picker returns, the
\* thread goes on serving the requests that waited.
C15_DialogStallsThenServes ==
    /\ [](server = "dialog" <=> cur # None)
    /\ [][(server = "dialog" /\ server' = "dialog") =>
              (last' = last /\ backlog' >= backlog)]_vars
    /\ [][(server = "dialog" /\ server' # "dialog" /\ backlog > 0) =>
              (server' = "run" /\ proc' = "running" /\ backlog' = backlog)]_vars

\* C16: the process exits with code 0 only in the handler of a GET whose
\* path is exactly /api/exit; a POST of /api/exit and a GET of /api/exit/
\* do not call exit, the latter looks up /api/exit/index.html.
C16_ExitOnlyByGetExit ==
    /\ (proc = "exited" \/ exit_code # None) =>
          /\ Handled(Get, ApiExit)
          /\ exit_code = Some(0)
    /\ (last # None /\ unwrap(last).req # [method |-> "GET", path |-> ApiExit]) =>
          /\ \A i \in 1..Len(unwrap(last).calls) : unwrap(last).calls[i].fn # "exit"
          /\ unwrap(last).outcome # "exit"
          /\ proc # "exited"
    /\ Handled("GET", ApiExitSlash) =>
          /\ unwrap(last).outcome = "response"
          /\ unwrap(last).calls =
                <<Called("file_from_string",
                         Some(ApiExit \o <<"/","i","n","d","e","x",".","h","t","m","l">>))>>

\* C16 witness: GET /api/exit/ was handled and the server goes on.
C16_Witness ==
    /\ Handled(Get, ApiExitSlash)
    /\ proc = "running"
    /\ server = "run"
    /\ exit_code = None

\* The threads of a running process keep being scheduled: the server thread
\* gets to bind and to send, and the creator gets to take what recv gives.
FairSpec ==
    /\ Spec
    /\ WF_vars(server_bind)
    /\ WF_vars(server_send)
    /\ WF_vars(with_addr_recv)

Sends == {i \in 1..Len(log) : log[i].ev = "send"}

\* C17: with_addr does not wait forever for the address: a successful bind
\* is followed by exactly one send, a failed bind by none and by the drop of
\* the Sender, and the creator's recv always completes, with the address or
\* with the disconnect that makes the creation call panic, unless the
\* process ends first.
C17_HandoffCompletes ==
    /\ [](Cardinality(Sends) <= 1)
    /\ []((bind_result # None /\ unwrap(bind_result).ok
                              /\ server \notin {"bind", "send"}) =>
             Cardinality(Sends) = 1)
    /\ []((bind_result # None /\ ~unwrap(bind_result).ok) =>
             /\ Sends = {}
             /\ chan = <<>>
             /\ (proc = "running" => ~senderAlive))
    /\ (creator = "recv") ~>
          (creator \in {"returned", "panicked"} \/ proc # "running")

\* C17 witness: the bind failed, the Sender was dropped and recv completed
\* with the disconnect.
C17_Witness ==
    /\ creator = "panicked"
    /\ bind_result # None /\ ~unwrap(bind_result).ok
    /\ ~senderAlive
    /\ handle = None
    /\ proc = "running"

\* C18: every 200 response of a handler carries a Content-Length header
\* equal to the length of the body it sends, and every 404 response has an
\* empty body; no other status is produced.
C18_LengthMatchesBody ==
    (last # None /\ unwrap(last).outcome = "response") =>
        LET resp == unwrap(unwrap(last).resp)
        IN  /\ resp.status \in {200, 404}
            /\ resp.status = 200 =>
                  /\ header(resp, "Content-Length") = Some(Len(resp.body))
                  /\ Cardinality({i \in 1..Len(resp.headers) :
                                     resp.headers[i][1] = "Content-Length"}) = 1
            /\ resp.status = 404 => resp.body = <<>>

\* C18 witness: a chosen folder whose JSON text is longer than the path
\* itself was answered with the length of the whole document.
C18_Witness ==
    /\ Handled(Get, ApiFileSelect)
    /\ unwrap(last).outcome = "response"
    /\ unwrap(last).file_dialog.val.path = DirWin
    /\ header(unwrap(unwrap(last).resp), "Content-Length") =
          Some(Len(DirWin) + 2 + 11)

====
